---- MODULE Spec2Model ----
(***************************************************************************)
(* Access policy, patient provisioning and analysis lifecycle of the       *)
(* medical laboratory application (users/ and medical_lab/).               *)
(*                                                                         *)
(* LifecycleSpec   status changes and results of analyses, one request at  *)
(*                 a time                                                  *)
(* AccessSpec      creation and deletion of records, one request at a time *)
(* RoleSpec        the superuser flag and the groups of accounts change    *)
(* ProvisionSpec   requests that provision a Patient interleave at their   *)
(*                 database accesses                                       *)
(* CompletionSpec  set_status requests interleave at their database        *)
(*                 accesses                                                *)
(* OwnershipSpec   accounts are registered, Patients and Analyses created, *)
(*                 and moderators named or dismissed, one request at a     *)
(*                 time                                                    *)
(* UpdateSpec      Analyses are created and edited, one request at a time  *)
(* ReadSpec        single records are read, one request at a time          *)
(* WriteSpec       every request that writes an Analysis, one at a time    *)
(* TypeSpec        Analyses are created while an analysis type is inactive *)
(* BirthSpec       Patients are created and edited with every birth date   *)
(* AccountSpec     the moderator enters Patients with accounts, which then *)
(*                 create Analyses                                         *)
(* ResultSpec      set_status and add_analysis_result requests interleave  *)
(*                 at their database accesses                              *)
(***************************************************************************)
EXTENDS Integers, FiniteSets, Sequences, TLC

\* ------------------------------------------------------------------ bounds
MaxPatients == 2
MaxAnalyses == 1
MaxMail == 2
MaxTime == 3
NHandlers == 2

\* ------------------------------------------------------------------ domain
Users == {"u1", "u2", "mod", "adm"}
Guest == "guest"
Actors == Users \cup {Guest}
GroupNames == {"administrators", "moderators", "users"}
\* Variant: one more status is accepted.
STATUS_CHOICES_and_unknown ==
    {"registered", "in_progress", "completed", "cancelled", "unknown_status"}

STATUS_CHOICES == {"registered", "in_progress", "completed", "cancelled"}
\* request.data.get('status') of a request that carries no status
NoStatus == "None"
Statuses == STATUS_CHOICES \cup {"unknown_status"}
NULL == 0
PatientIds == 1..MaxPatients
Handlers == 1..NHandlers
AnalysisIds == 1..MaxAnalyses
Payloads == {"r1", "r2"}
Malformed == "malformed"
Blank == ""
NoUser == "none"
\* The names of the analysis types, and the table of one active type.
TypeNames == {"blood", "urine"}
OneActiveType == [ty \in {"blood"} |-> TRUE]
ActiveAndInactiveType == [ty \in TypeNames |-> ty = "blood"]
\* A birth date is a date object, the text of a date, or missing; a date is
\* kept by its year.
Today == 2026
NoDate == [type |-> "none", year |-> NULL]
DateOf(year) == [type |-> "date", year |-> year]
TextOf(year) == [type |-> "str", year |-> year]

VARIABLES
    is_superuser,   \* User.is_superuser, per account
    groups,         \* User.groups (names), per account
    registered,     \* the accounts that exist (rows of User)
    patients,       \* table of Patient rows, keyed by id
    analyses,       \* table of Analysis rows, keyed by id
    analysis_types, \* table of AnalysisType rows: is_active, keyed by name
    patientSeq,     \* last id handed out for a Patient
    analysisSeq,    \* last id handed out for an Analysis
    outbox,         \* completion mails sent, per Analysis id
    now,            \* timezone.now(), a logical clock
    op,             \* the last request served and its outcome
    handlers        \* requests in flight (ProvisionSpec, CompletionSpec)

vars == <<is_superuser, groups, registered, patients, analyses, analysis_types,
          patientSeq, analysisSeq, outbox, now, op, handlers>>
accounts == <<is_superuser, groups, registered>>
store == <<patients, analyses, analysis_types, patientSeq, analysisSeq, outbox, now>>

\* ------------------------------------------------------------------ roles
is_authenticated(u) == u \in registered

\* Variant: the superuser flag is ignored.
is_administrator_by_group_only(u) == "administrators" \in groups[u]

is_administrator(u) == ("administrators" \in groups[u]) \/ is_superuser[u]

is_moderator(u) == "moderators" \in groups[u]

is_regular_user(u) == ~(is_administrator(u) \/ is_moderator(u))

role_display(u) ==
    IF is_administrator(u) THEN "Administrator"
    ELSE IF is_moderator(u) THEN "Moderator"
    ELSE "Patient"

\* UserSerializer.get_role_display
get_role_display(u) ==
    IF is_administrator(u) THEN "Administrator"
    ELSE IF is_moderator(u) THEN "Moderator"
    ELSE IF is_regular_user(u) THEN "Patient"
    ELSE "Guest"

\* ------------------------------------------------------------------ permission classes
\* Variant: moderators pass as well.
IsAdministrator_or_moderator(u) ==
    is_authenticated(u) /\ (is_administrator(u) \/ is_moderator(u))

IsAdministrator(u) == is_authenticated(u) /\ is_administrator(u)

IsModerator(u) == is_authenticated(u) /\ is_moderator(u)

IsRegularUser(u) == is_authenticated(u) /\ is_regular_user(u)

IsAdministratorOrModerator(u) ==
    is_authenticated(u) /\ (is_administrator(u) \/ is_moderator(u))

\* ------------------------------------------------------------------ querysets
\* Variant: the lookup never finds a Patient.
OwnPatients_never_found(u) == {}

OwnPatients(u) == {p \in DOMAIN patients : patients[p].created_by = u}

OwnAnalyses(u) ==
    {a \in DOMAIN analyses : analyses[a].patient \in OwnPatients(u)}

PatientViewSet_get_queryset(u) ==
    IF ~is_authenticated(u) THEN {}
    ELSE IF is_administrator(u) THEN DOMAIN patients
    ELSE IF is_moderator(u) THEN DOMAIN patients
    ELSE IF is_regular_user(u) THEN OwnPatients(u)
    ELSE {}

\* Variant: a self-service account gets every analysis.
AnalysisViewSet_get_queryset_unscoped(u) ==
    IF ~is_authenticated(u) THEN {} ELSE DOMAIN analyses

AnalysisViewSet_get_queryset(u) ==
    IF ~is_authenticated(u) THEN {}
    ELSE IF is_administrator(u) THEN DOMAIN analyses
    ELSE IF is_moderator(u) THEN DOMAIN analyses
    ELSE IF is_regular_user(u) THEN OwnAnalyses(u)
    ELSE {}

\* GET /api/patients/ and GET /api/analyses/
PatientViewSet_list(u) ==
    IF IsAdministratorOrModerator(u) \/ IsRegularUser(u)
    THEN [code |-> 200, data |-> PatientViewSet_get_queryset(u)]
    ELSE [code |-> 403, data |-> {}]

AnalysisViewSet_list(u) ==
    IF IsAdministratorOrModerator(u) \/ IsRegularUser(u)
    THEN [code |-> 200, data |-> AnalysisViewSet_get_queryset(u)]
    ELSE [code |-> 403, data |-> {}]

\* GET /api/analyses/dashboard_stats/ : the queryset the counts are taken over,
\* and the counts.
dashboard_queryset(u) ==
    IF is_administrator(u) \/ is_moderator(u) THEN DOMAIN analyses
    ELSE IF is_regular_user(u) THEN OwnAnalyses(u)
    ELSE {}

CountStatus(qs, st) == Cardinality({a \in qs : analyses[a].status = st})

dashboard_stats(u) ==
    IF ~(IsAdministratorOrModerator(u) \/ IsRegularUser(u))
    THEN [code |-> 403, total_analyses |-> 0, completed_analyses |-> 0,
          in_progress_analyses |-> 0, registered_analyses |-> 0]
    ELSE LET queryset == dashboard_queryset(u)
         IN  [code |-> 200,
              total_analyses |-> Cardinality(queryset),
              completed_analyses |-> CountStatus(queryset, "completed"),
              in_progress_analyses |-> CountStatus(queryset, "in_progress"),
              registered_analyses |-> CountStatus(queryset, "registered")]

\* GET /patients/ and GET /analyses/ (the pages), before the search filters.
patients_list(u) ==
    IF ~is_authenticated(u) THEN [code |-> 302, data |-> {}]
    ELSE IF is_administrator(u) \/ is_moderator(u)
    THEN [code |-> 200, data |-> DOMAIN patients]
    ELSE IF is_regular_user(u) THEN [code |-> 200, data |-> OwnPatients(u)]
    ELSE [code |-> 200, data |-> {}]

analyses_list(u) ==
    IF ~is_authenticated(u) THEN [code |-> 302, data |-> {}]
    ELSE IF is_administrator(u) \/ is_moderator(u)
    THEN [code |-> 200, data |-> DOMAIN analyses]
    ELSE IF is_regular_user(u) THEN [code |-> 200, data |-> OwnAnalyses(u)]
    ELSE [code |-> 200, data |-> {}]

Respond(name, actor, pk, outcome) ==
    op' = [name |-> name, actor |-> actor, pk |-> pk, outcome |-> outcome]

\* ------------------------------------------------------------------ initial state
\* One account of each role: two self-service accounts (one registered through
\* the moderator's form, which puts it in the group users), a moderator and an
\* administrator.
\* The profile fields of the accounts that provisioning copies into a Patient.
\* u1 was created through the users API, which asks for no birth date or gender
\* and lets the names be blank; the other accounts filled a registration form.
UserProfile ==
    [u \in Users |->
        IF u = "u1"
        THEN [last_name |-> Blank, first_name |-> Blank,
              birth_date |-> NoDate, gender |-> Blank]
        ELSE [last_name |-> "Ivanov", first_name |-> "Ivan",
              birth_date |-> DateOf(1990), gender |-> "M"]]

InitialGroups ==
    [u \in Users |->
        CASE u = "u1" -> {}
          [] u = "u2" -> {"users"}
          [] u = "mod" -> {"moderators"}
          [] OTHER -> {"administrators"}]

Init ==
    /\ is_superuser = [u \in Users |-> FALSE]
    /\ groups = InitialGroups
    /\ registered = Users
    /\ patients = <<>>
    /\ analyses = <<>>
    /\ analysis_types = OneActiveType
    /\ patientSeq = 0
    /\ analysisSeq = 0
    /\ outbox = [a \in AnalysisIds |-> 0]
    /\ now = 1
    /\ op = [name |-> "none", actor |-> Guest, pk |-> NULL, outcome |-> "none"]
    /\ handlers = <<>>

\* ------------------------------------------------------------------ saving an Analysis
\* Analysis.send_completion_email: one mail to the Patient's address.
send_completion_email(box, pk) == [box EXCEPT ![pk] = @ + 1]

\* Variant: the receiver never sends the mail.
handle_analysis_status_change_silent(db, pk, instance, t) ==
    [instance |-> instance, email |-> FALSE]

\* Variant: the receiver does not look at the stored status.
handle_analysis_status_change_unguarded(db, pk, instance, t) ==
    IF pk = NULL \/ pk \notin DOMAIN db THEN [instance |-> instance, email |-> FALSE]
    ELSE [instance |-> instance, email |-> instance.status = "completed"]

\* The pre_save receiver: db is the table as stored, instance the object being
\* saved, t the clock. Yields the instance as the receiver leaves it and whether
\* the completion mail is sent.
handle_analysis_status_change(db, pk, instance, t) ==
    IF pk = NULL THEN [instance |-> instance, email |-> FALSE]
    ELSE IF pk \notin DOMAIN db THEN [instance |-> instance, email |-> FALSE]
    ELSE IF db[pk].status # "completed" /\ instance.status = "completed"
         THEN [instance |-> IF instance.completion_date = NULL
                             THEN [instance EXCEPT !.completion_date = t]
                             ELSE instance,
               email |-> TRUE]
         ELSE [instance |-> instance, email |-> FALSE]

\* Variant: save never stamps the date.
Analysis_save_unstamped(instance, t) == instance

\* Variant: the date is stamped on every save of a completed analysis.
Analysis_save_restamping(instance, t) ==
    IF instance.status = "completed"
    THEN [instance EXCEPT !.completion_date = t]
    ELSE instance

\* Analysis.save, up to the call of Model.save.
Analysis_save(instance, t) ==
    IF instance.status = "completed" /\ instance.completion_date = NULL
    THEN [instance EXCEPT !.completion_date = t]
    ELSE instance

\* save() of an Analysis that has a primary key: Analysis.save stamps the date,
\* Model.save runs the pre_save receiver and then writes every field of the row.
\* A dispatch that fails (mail_ok false) raises out of the receiver, before the
\* write.
SaveAnalysis(name, actor, pk, instance) ==
    LET stamped == Analysis_save(instance, now)
        sig == handle_analysis_status_change(analyses, pk, stamped, now)
        written ==
            /\ sig.instance.completion_date # instance.completion_date => now <= MaxTime
            /\ analyses' = [analyses EXCEPT ![pk] = sig.instance]
            /\ now' = IF sig.instance.completion_date # instance.completion_date
                      THEN now + 1 ELSE now
            /\ Respond(name, actor, pk, "ok")
            /\ UNCHANGED <<patients, patientSeq, analysis_types, analysisSeq>>
    IN  IF sig.email
        THEN \E mail_ok \in BOOLEAN :
                IF mail_ok
                THEN /\ outbox[pk] < MaxMail
                     /\ outbox' = send_completion_email(outbox, pk)
                     /\ written
                ELSE /\ Respond(name, actor, pk, "error")
                     /\ UNCHANGED store
        ELSE written /\ UNCHANGED outbox

\* ------------------------------------------------------------------ lifecycle requests
\* POST /api/analyses/{pk}/set_status/ with {"status": new_status}
set_status(actor) ==
    /\ UNCHANGED <<accounts, handlers>>
    /\ IF ~IsModerator(actor)
       THEN Respond("set_status", actor, NULL, "forbidden") /\ UNCHANGED store
       ELSE \E pk \in AnalysisIds :
            IF pk \notin AnalysisViewSet_get_queryset(actor)
            THEN Respond("set_status", actor, pk, "not_found") /\ UNCHANGED store
            ELSE \E new_status \in Statuses \cup {NoStatus} :
                 IF new_status \notin STATUS_CHOICES
                 THEN Respond("set_status", actor, pk, "bad_request") /\ UNCHANGED store
                 ELSE SaveAnalysis("set_status", actor, pk,
                                   [analyses[pk] EXCEPT !.status = new_status])

\* Variant: the result is written without the status and the technician.
attach_result_only(instance, payload, user) == [instance EXCEPT !.result = payload]

\* form.save(commit=False) of the result form and the two assignments of the
\* view, on the instance that is then saved once.
attach_result(instance, payload, user) ==
    [instance EXCEPT !.result = payload,
                     !.status = "completed",
                     !.lab_technician = user]

\* POST /analyses/{pk}/result/ with the result form
add_analysis_result(actor) ==
    /\ UNCHANGED <<accounts, handlers>>
    /\ IF ~is_authenticated(actor)
       THEN Respond("add_analysis_result", actor, NULL, "login") /\ UNCHANGED store
       ELSE IF ~is_moderator(actor)
       THEN Respond("add_analysis_result", actor, NULL, "forbidden") /\ UNCHANGED store
       ELSE \E pk \in AnalysisIds :
            IF pk \notin DOMAIN analyses
            THEN Respond("add_analysis_result", actor, pk, "not_found") /\ UNCHANGED store
            ELSE \E payload \in Payloads \cup {Malformed} :
                 IF payload = Malformed
                 THEN Respond("add_analysis_result", actor, pk, "invalid")
                      /\ UNCHANGED store
                 ELSE SaveAnalysis("add_analysis_result", actor, pk,
                                   attach_result(analyses[pk], payload, actor))

\* ------------------------------------------------------------------ creating records
\* x or default, of Python, on text and on birth dates.
OrText(x, default) == IF x = Blank THEN default ELSE x

OrDate(x, default) == IF x = NoDate THEN default ELSE x

\* The Patient a moderator enters: the fields of a valid payload.
NewPatient(owner) ==
    [created_by |-> owner, last_name |-> "Petrov", first_name |-> "Petr",
     birth_date |-> DateOf(1980), gender |-> "M"]

\* The birth years a payload or a posted form may carry: long ago, plausible,
\* after today. PlainYears is the payload of the requests whose birth date is
\* of no interest.
BirthYears == {1800, 1980, 2030}
PlainYears == {1980}

PatientBorn(instance, year) == [instance EXCEPT !.birth_date = DateOf(year)]

\* PatientForm.clean_birth_date: TRUE when the date passes.
PatientForm_clean_birth_date(year) == year <= Today /\ Today - year <= 150

\* The Patient that provisioning builds for the account user.
ProvisionedPatient(user) ==
    [created_by |-> user,
     last_name |-> OrText(UserProfile[user].last_name, "User"),
     first_name |-> OrText(UserProfile[user].first_name, "Unknown"),
     birth_date |-> OrDate(UserProfile[user].birth_date, TextOf(2000)),
     gender |-> OrText(UserProfile[user].gender, "O")]

\* Patient.save, up to the call of Model.save: whether it raises. The comparison
\* of a text with date.today() is a TypeError, a date after today a ValueError.
Patient_save_raises(instance) ==
    \/ instance.birth_date.type = "str"
    \/ instance.birth_date.type = "date" /\ instance.birth_date.year > Today

\* The analysis types a create request may name. AnalysisForm narrows the field
\* to the active rows; AnalysisSerializer leaves the field's default queryset,
\* every row.
AnalysisForm_analysis_type == {ty \in DOMAIN analysis_types : analysis_types[ty]}
AnalysisSerializer_analysis_type == DOMAIN analysis_types

NewAnalysis(patient, st, ty) ==
    [patient |-> patient, analysis_type |-> ty, status |-> st,
     completion_date |-> NULL, lab_technician |-> NoUser, result |-> Blank]

\* Analysis.objects.create / serializer.save / form.save of a new Analysis: the
\* pre_save receiver returns at once (no primary key yet), Analysis.save stamps
\* the date of an Analysis created as completed.
InsertAnalysis(table, patient, st, ty) ==
    LET instance == Analysis_save(NewAnalysis(patient, st, ty), now)
    IN  /\ analysisSeq < MaxAnalyses
        /\ UNCHANGED analysis_types
        /\ instance.completion_date # NULL => now <= MaxTime
        /\ analysisSeq' = analysisSeq + 1
        /\ analyses' = (analysisSeq + 1 :> instance) @@ table
        /\ now' = IF instance.completion_date # NULL THEN now + 1 ELSE now

InsertPatient(instance) ==
    /\ patientSeq < MaxPatients
    /\ patientSeq' = patientSeq + 1
    /\ patients' = (patientSeq + 1 :> instance) @@ patients

\* POST /api/patients/ with a birth year of years: PatientSerializer parses the
\* date and checks nothing more; Patient.save may raise.
PatientViewSet_create_with(actor, years) ==
    /\ UNCHANGED <<accounts, handlers>>
    /\ IF ~IsModerator(actor)
       THEN Respond("PatientViewSet_create", actor, NULL, "forbidden") /\ UNCHANGED store
       ELSE \E year \in years :
            IF Patient_save_raises(PatientBorn(NewPatient(actor), year))
            THEN Respond("PatientViewSet_create", actor, NULL, "error")
                 /\ UNCHANGED store
            ELSE /\ InsertPatient(PatientBorn(NewPatient(actor), year))
                 /\ Respond("PatientViewSet_create", actor, patientSeq + 1, "ok")
                 /\ UNCHANGED <<analyses, analysis_types, analysisSeq, outbox, now>>

\* POST /api/patients/
PatientViewSet_create(actor) == PatientViewSet_create_with(actor, PlainYears)

\* Variant: the Analysis is saved with the patient of the payload.
perform_create_patient_as_sent(actor, p) == p

\* perform_create for a self-service account that has a Patient: the Analysis is
\* saved with that Patient, whatever patient p the payload names.
perform_create_patient(actor, p) == CHOOSE q \in OwnPatients(actor) : TRUE

\* POST /api/analyses/ : p, st and ty are the patient, the status and the
\* analysis type of the payload; the serializer's analysis_type field resolves ty
\* against every AnalysisType row.
AnalysisViewSet_create(actor) ==
    /\ UNCHANGED <<accounts, handlers>>
    /\ IF ~(IsModerator(actor) \/ IsRegularUser(actor))
       THEN Respond("AnalysisViewSet_create", actor, NULL, "forbidden") /\ UNCHANGED store
       ELSE \E p \in PatientIds, st \in Statuses, ty \in TypeNames :
            IF p \notin DOMAIN patients \/ st \notin STATUS_CHOICES
               \/ ty \notin AnalysisSerializer_analysis_type
            THEN Respond("AnalysisViewSet_create", actor, NULL, "bad_request")
                 /\ UNCHANGED store
            ELSE IF ~is_regular_user(actor)
            THEN /\ InsertAnalysis(analyses, p, st, ty)
                 /\ Respond("AnalysisViewSet_create", actor, analysisSeq + 1, "ok")
                 /\ UNCHANGED <<patients, patientSeq, outbox>>
            ELSE IF Cardinality(OwnPatients(actor)) > 1
            THEN Respond("AnalysisViewSet_create", actor, NULL, "error")
                 /\ UNCHANGED store
            ELSE IF OwnPatients(actor) = {}
                    /\ Patient_save_raises(ProvisionedPatient(actor))
            THEN Respond("AnalysisViewSet_create", actor, NULL, "error")
                 /\ UNCHANGED store
            ELSE IF OwnPatients(actor) = {}
            THEN /\ InsertPatient(ProvisionedPatient(actor))
                 /\ InsertAnalysis(analyses, patientSeq + 1, st, ty)
                 /\ Respond("AnalysisViewSet_create", actor, analysisSeq + 1, "ok")
                 /\ UNCHANGED outbox
            ELSE /\ InsertAnalysis(analyses, perform_create_patient(actor, p), st, ty)
                 /\ Respond("AnalysisViewSet_create", actor, analysisSeq + 1, "ok")
                 /\ UNCHANGED <<patients, patientSeq, outbox>>

\* GET or POST /analyses/create/ : p and ty are the patient and the analysis type
\* the posted form names.
create_analysis(actor) ==
    /\ UNCHANGED <<accounts, handlers>>
    /\ IF ~is_authenticated(actor)
       THEN Respond("create_analysis", actor, NULL, "login") /\ UNCHANGED store
       ELSE IF ~(is_moderator(actor) \/ is_regular_user(actor))
       THEN Respond("create_analysis", actor, NULL, "forbidden") /\ UNCHANGED store
       ELSE IF is_regular_user(actor) /\ Cardinality(OwnPatients(actor)) > 1
       THEN Respond("create_analysis", actor, NULL, "error") /\ UNCHANGED store
       ELSE IF is_regular_user(actor) /\ OwnPatients(actor) = {}
               /\ Patient_save_raises(ProvisionedPatient(actor))
       THEN Respond("create_analysis", actor, NULL, "error") /\ UNCHANGED store
       ELSE LET provision == is_regular_user(actor) /\ OwnPatients(actor) = {}
                choices == IF is_administrator(actor) \/ is_moderator(actor)
                           THEN DOMAIN patients
                           ELSE IF provision THEN {patientSeq + 1}
                           ELSE OwnPatients(actor)
            IN  /\ IF provision THEN InsertPatient(ProvisionedPatient(actor))
                   ELSE UNCHANGED <<patients, patientSeq>>
                /\ UNCHANGED outbox
                /\ \E post \in BOOLEAN :
                   IF post
                   THEN \E p \in PatientIds, ty \in TypeNames :
                        IF p \in choices /\ ty \in AnalysisForm_analysis_type
                        THEN /\ InsertAnalysis(analyses, p, "registered", ty)
                             /\ Respond("create_analysis", actor, analysisSeq + 1, "ok")
                        ELSE /\ Respond("create_analysis", actor, NULL, "invalid")
                             /\ UNCHANGED <<analyses, analysis_types, analysisSeq, now>>
                   ELSE /\ Respond("create_analysis", actor, NULL, "form")
                        /\ UNCHANGED <<analyses, analysis_types, analysisSeq, now>>

\* ------------------------------------------------------------------ reading one record
\* GET /api/patients/{pk}/ : get_object looks pk up in get_queryset.
PatientViewSet_retrieve(actor) ==
    /\ UNCHANGED <<accounts, store, handlers>>
    /\ IF ~(IsAdministratorOrModerator(actor) \/ IsRegularUser(actor))
       THEN Respond("PatientViewSet_retrieve", actor, NULL, "forbidden")
       ELSE \E pk \in PatientIds :
            IF pk \notin PatientViewSet_get_queryset(actor)
            THEN Respond("PatientViewSet_retrieve", actor, pk, "not_found")
            ELSE Respond("PatientViewSet_retrieve", actor, pk, "ok")

\* GET /api/patients/{pk}/analyses/
PatientViewSet_analyses(actor) ==
    /\ UNCHANGED <<accounts, store, handlers>>
    /\ IF ~(IsAdministratorOrModerator(actor) \/ IsRegularUser(actor))
       THEN Respond("PatientViewSet_analyses", actor, NULL, "forbidden")
       ELSE \E pk \in PatientIds :
            IF pk \notin PatientViewSet_get_queryset(actor)
            THEN Respond("PatientViewSet_analyses", actor, pk, "not_found")
            ELSE IF is_regular_user(actor) /\ patients[pk].created_by # actor
            THEN Respond("PatientViewSet_analyses", actor, pk, "forbidden")
            ELSE Respond("PatientViewSet_analyses", actor, pk, "ok")

\* GET /api/analyses/{pk}/
AnalysisViewSet_retrieve(actor) ==
    /\ UNCHANGED <<accounts, store, handlers>>
    /\ IF ~(IsAdministratorOrModerator(actor) \/ IsRegularUser(actor))
       THEN Respond("AnalysisViewSet_retrieve", actor, NULL, "forbidden")
       ELSE \E pk \in AnalysisIds :
            IF pk \notin AnalysisViewSet_get_queryset(actor)
            THEN Respond("AnalysisViewSet_retrieve", actor, pk, "not_found")
            ELSE Respond("AnalysisViewSet_retrieve", actor, pk, "ok")

\* GET /patients/{pk}/
patient_detail(actor) ==
    /\ UNCHANGED <<accounts, store, handlers>>
    /\ IF ~is_authenticated(actor)
       THEN Respond("patient_detail", actor, NULL, "login")
       ELSE \E pk \in PatientIds :
            IF pk \notin DOMAIN patients
            THEN Respond("patient_detail", actor, pk, "not_found")
            ELSE IF is_regular_user(actor) /\ patients[pk].created_by # actor
            THEN Respond("patient_detail", actor, pk, "forbidden")
            ELSE Respond("patient_detail", actor, pk, "ok")

\* GET /analyses/{pk}/
analysis_detail(actor) ==
    /\ UNCHANGED <<accounts, store, handlers>>
    /\ IF ~is_authenticated(actor)
       THEN Respond("analysis_detail", actor, NULL, "login")
       ELSE \E pk \in AnalysisIds :
            IF pk \notin DOMAIN analyses
            THEN Respond("analysis_detail", actor, pk, "not_found")
            ELSE IF is_regular_user(actor)
                    /\ patients[analyses[pk].patient].created_by # actor
            THEN Respond("analysis_detail", actor, pk, "forbidden")
            ELSE Respond("analysis_detail", actor, pk, "ok")

\* ------------------------------------------------------------------ updating an Analysis
\* has_object_permission of IsOwnerOrAdministratorOrModerator on an Analysis; the
\* class has no has_permission of its own, so every request passes that check.
IsOwnerOrAdministratorOrModerator(u, obj) ==
    IF is_administrator(u) \/ is_moderator(u) THEN TRUE
    ELSE obj.patient \in DOMAIN patients /\ patients[obj.patient].created_by = u

\* The writable fields of AnalysisSerializer that the requests here send.
PatchFields == {"status", "result", "completion_date", "lab_technician", "patient"}

\* PATCH /api/analyses/{pk}/ with one field of the serializer.
AnalysisViewSet_partial_update(actor) ==
    /\ UNCHANGED <<accounts, handlers>>
    /\ \E pk \in AnalysisIds :
       IF pk \notin AnalysisViewSet_get_queryset(actor)
       THEN Respond("AnalysisViewSet_partial_update", actor, pk, "not_found")
            /\ UNCHANGED store
       ELSE IF ~IsOwnerOrAdministratorOrModerator(actor, analyses[pk])
       THEN Respond("AnalysisViewSet_partial_update", actor, pk, "forbidden")
            /\ UNCHANGED store
       ELSE \E field \in PatchFields :
            LET save(instance) ==
                    SaveAnalysis("AnalysisViewSet_partial_update", actor, pk, instance)
                refuse == Respond("AnalysisViewSet_partial_update", actor, pk,
                                  "bad_request") /\ UNCHANGED store
            IN  CASE field = "status" ->
                       \E new_status \in Statuses :
                          IF new_status \notin STATUS_CHOICES THEN refuse
                          ELSE save([analyses[pk] EXCEPT !.status = new_status])
                  [] field = "result" ->
                       \E payload \in Payloads :
                          save([analyses[pk] EXCEPT !.result = payload])
                  [] field = "completion_date" ->
                       \E t \in {NULL, now} :
                          save([analyses[pk] EXCEPT !.completion_date = t])
                  [] field = "lab_technician" ->
                       \E tech \in Users :
                          IF tech \notin registered THEN refuse
                          ELSE save([analyses[pk] EXCEPT !.lab_technician = tech])
                  [] OTHER ->
                       \E p \in PatientIds :
                          IF p \notin DOMAIN patients THEN refuse
                          ELSE save([analyses[pk] EXCEPT !.patient = p])

\* GET or POST /analyses/{pk}/edit/ : the form holds the patient, the type, the
\* collection date and the notes; p is the patient the posted form names.
edit_analysis(actor) ==
    /\ UNCHANGED <<accounts, handlers>>
    /\ IF ~is_authenticated(actor)
       THEN Respond("edit_analysis", actor, NULL, "login") /\ UNCHANGED store
       ELSE \E pk \in AnalysisIds :
            IF pk \notin DOMAIN analyses
            THEN Respond("edit_analysis", actor, pk, "not_found") /\ UNCHANGED store
            ELSE IF ~(is_administrator(actor) \/ is_moderator(actor)
                      \/ (is_regular_user(actor)
                          /\ patients[analyses[pk].patient].created_by = actor))
            THEN Respond("edit_analysis", actor, pk, "forbidden") /\ UNCHANGED store
            ELSE IF is_regular_user(actor) /\ Cardinality(OwnPatients(actor)) > 1
            THEN Respond("edit_analysis", actor, pk, "error") /\ UNCHANGED store
            ELSE LET choices == IF is_administrator(actor) \/ is_moderator(actor)
                                THEN DOMAIN patients ELSE OwnPatients(actor)
                 IN  \E post \in BOOLEAN :
                     IF ~post
                     THEN Respond("edit_analysis", actor, pk, "form")
                          /\ UNCHANGED store
                     ELSE \E p \in PatientIds :
                          IF p \notin choices
                          THEN Respond("edit_analysis", actor, pk, "invalid")
                               /\ UNCHANGED store
                          ELSE SaveAnalysis("edit_analysis", actor, pk,
                                            [analyses[pk] EXCEPT !.patient = p])

\* ------------------------------------------------------------------ deleting records
\* DELETE /api/patients/{pk}/ : the Analyses of the Patient go with it.
PatientViewSet_destroy(actor) ==
    /\ UNCHANGED <<accounts, handlers>>
    /\ IF ~IsAdministrator(actor)
       THEN Respond("PatientViewSet_destroy", actor, NULL, "forbidden") /\ UNCHANGED store
       ELSE \E pk \in PatientIds :
            IF pk \notin PatientViewSet_get_queryset(actor)
            THEN Respond("PatientViewSet_destroy", actor, pk, "not_found")
                 /\ UNCHANGED store
            ELSE /\ patients' = [q \in DOMAIN patients \ {pk} |-> patients[q]]
                 /\ analyses' = [a \in {b \in DOMAIN analyses : analyses[b].patient # pk}
                                    |-> analyses[a]]
                 /\ Respond("PatientViewSet_destroy", actor, pk, "ok")
                 /\ UNCHANGED <<patientSeq, analysis_types, analysisSeq, outbox, now>>

\* DELETE /api/analyses/{pk}/
AnalysisViewSet_destroy(actor) ==
    /\ UNCHANGED <<accounts, handlers>>
    /\ IF ~IsAdministrator(actor)
       THEN Respond("AnalysisViewSet_destroy", actor, NULL, "forbidden") /\ UNCHANGED store
       ELSE \E pk \in AnalysisIds :
            IF pk \notin AnalysisViewSet_get_queryset(actor)
            THEN Respond("AnalysisViewSet_destroy", actor, pk, "not_found")
                 /\ UNCHANGED store
            ELSE /\ analyses' = [a \in DOMAIN analyses \ {pk} |-> analyses[a]]
                 /\ Respond("AnalysisViewSet_destroy", actor, pk, "ok")
                 /\ UNCHANGED <<patients, patientSeq, analysis_types, analysisSeq, outbox, now>>

\* ------------------------------------------------------------------ specification
LifecycleNext ==
    \/ \E actor \in Actors : set_status(actor)
    \/ \E actor \in Actors : add_analysis_result(actor)
    \/ \E actor \in Actors : AnalysisViewSet_create(actor)

AccessNext ==
    \/ \E actor \in Actors : PatientViewSet_create(actor)
    \/ \E actor \in Actors : AnalysisViewSet_create(actor)
    \/ \E actor \in Actors : create_analysis(actor)
    \/ \E actor \in Actors : PatientViewSet_destroy(actor)
    \/ \E actor \in Actors : AnalysisViewSet_destroy(actor)

UpdateNext ==
    \/ \E actor \in Actors : AnalysisViewSet_create(actor)
    \/ \E actor \in Actors : AnalysisViewSet_partial_update(actor)
    \/ \E actor \in Actors : edit_analysis(actor)

ReadNext ==
    \/ \E actor \in Actors : AnalysisViewSet_create(actor)
    \/ \E actor \in Actors : PatientViewSet_retrieve(actor)
    \/ \E actor \in Actors : PatientViewSet_analyses(actor)
    \/ \E actor \in Actors : AnalysisViewSet_retrieve(actor)
    \/ \E actor \in Actors : patient_detail(actor)
    \/ \E actor \in Actors : analysis_detail(actor)

\* The store once the account u2 has opened /analyses/create/ and the moderator
\* has entered a Patient.
LifecycleInit ==
    /\ is_superuser = [u \in Users |-> FALSE]
    /\ groups = InitialGroups
    /\ registered = Users
    /\ patients = (1 :> ProvisionedPatient("u2")) @@ (2 :> NewPatient("mod"))
    /\ analyses = <<>>
    /\ analysis_types = OneActiveType
    /\ patientSeq = 2
    /\ analysisSeq = 0
    /\ outbox = [a \in AnalysisIds |-> 0]
    /\ now = 1
    /\ op = [name |-> "create_analysis", actor |-> "u2", pk |-> NULL, outcome |-> "form"]
    /\ handlers = <<>>

LifecycleSpec == LifecycleInit /\ [][LifecycleNext]_vars

AccessSpec == Init /\ [][AccessNext]_vars

UpdateSpec == LifecycleInit /\ [][UpdateNext]_vars

ReadSpec == LifecycleInit /\ [][ReadNext]_vars

\* Every request that writes an Analysis: creation, the two lifecycle requests
\* and the two generic updates.
WriteNext ==
    \/ \E actor \in Actors : AnalysisViewSet_create(actor)
    \/ \E actor \in Actors : set_status(actor)
    \/ \E actor \in Actors : add_analysis_result(actor)
    \/ \E actor \in Actors : AnalysisViewSet_partial_update(actor)
    \/ \E actor \in Actors : edit_analysis(actor)

WriteSpec == LifecycleInit /\ [][WriteNext]_vars

\* UserViewSet.get_queryset: the accounts GET /api/users/ lists for user.
UserViewSet_get_queryset(user) ==
    IF ~is_authenticated(user) THEN {}
    ELSE IF is_administrator(user) THEN registered
    ELSE IF is_moderator(user)
    THEN {v \in registered : "moderators" \in groups[v] \/ "users" \in groups[v]}
    ELSE {}

\* ------------------------------------------------------------------ accounts administration
\* The Permissions fieldset of the user admin: the superuser flag and the groups
\* of an account are edited there.
set_is_superuser(u, flag) ==
    /\ is_superuser[u] # flag
    /\ is_superuser' = [is_superuser EXCEPT ![u] = flag]
    /\ UNCHANGED <<groups, registered, store, op, handlers>>

add_group(u, g) ==
    /\ g \notin groups[u]
    /\ groups' = [groups EXCEPT ![u] = @ \cup {g}]
    /\ UNCHANGED <<is_superuser, registered, store, op, handlers>>

remove_group(u, g) ==
    /\ g \in groups[u]
    /\ groups' = [groups EXCEPT ![u] = @ \ {g}]
    /\ UNCHANGED <<is_superuser, registered, store, op, handlers>>

RoleNext ==
    \/ \E u \in Users, flag \in BOOLEAN : set_is_superuser(u, flag)
    \/ \E u \in Users, g \in GroupNames : add_group(u, g)
    \/ \E u \in Users, g \in GroupNames : remove_group(u, g)

RoleSpec == Init /\ [][RoleNext]_vars

\* ------------------------------------------------------------------ new accounts
\* PatientRegistrationForm.save and the head of PatientWithUserForm.save: the
\* account is created, not a superuser, and put in the group users.
CreateAccount(email) ==
    /\ registered' = registered \cup {email}
    /\ groups' = [groups EXCEPT ![email] = {"users"}]
    /\ is_superuser' = [is_superuser EXCEPT ![email] = FALSE]

\* Variant: the Patient belongs to the new account.
PatientWithUserForm_save_for_user(created_by, user) == NewPatient(user)

\* PatientWithUserForm.save(created_by=...): the Patient the form builds for the
\* new account user.
PatientWithUserForm_save(created_by, user) ==
    NewPatient(IF created_by # NoUser THEN created_by ELSE user)

\* GET or POST /register/ : email is the address of the posted form.
register(actor) ==
    /\ UNCHANGED <<store, handlers>>
    /\ \E post \in BOOLEAN :
          IF ~post
          THEN Respond("register", actor, NULL, "form") /\ UNCHANGED accounts
          ELSE \E email \in Users :
               IF email \in registered
               THEN Respond("register", actor, NULL, "invalid") /\ UNCHANGED accounts
               ELSE CreateAccount(email) /\ Respond("register", email, NULL, "ok")

\* GET or POST /patients/create/ : email is the address of the posted form, its
\* birth year one of years. PatientWithUserForm has no clean_birth_date, and its
\* save creates the account before Patient.save runs.
create_patient_with(actor, years) ==
    /\ UNCHANGED <<analyses, analysis_types, analysisSeq, outbox, now, handlers>>
    /\ IF ~is_authenticated(actor)
       THEN Respond("create_patient", actor, NULL, "login")
            /\ UNCHANGED <<accounts, patients, patientSeq>>
       ELSE IF is_regular_user(actor) \/ ~is_moderator(actor)
       THEN Respond("create_patient", actor, NULL, "forbidden")
            /\ UNCHANGED <<accounts, patients, patientSeq>>
       ELSE \E post \in BOOLEAN :
            IF ~post
            THEN Respond("create_patient", actor, NULL, "form")
                 /\ UNCHANGED <<accounts, patients, patientSeq>>
            ELSE \E email \in Users, year \in years :
                 LET patient == PatientBorn(PatientWithUserForm_save(actor, email), year)
                 IN  IF email \in registered
                     THEN Respond("create_patient", actor, NULL, "invalid")
                          /\ UNCHANGED <<accounts, patients, patientSeq>>
                     ELSE IF Patient_save_raises(patient)
                     THEN /\ CreateAccount(email)
                          /\ Respond("create_patient", actor, NULL, "error")
                          /\ UNCHANGED <<patients, patientSeq>>
                     ELSE /\ CreateAccount(email)
                          /\ InsertPatient(patient)
                          /\ Respond("create_patient", actor, patientSeq + 1, "ok")

\* GET or POST /patients/create/
create_patient(actor) == create_patient_with(actor, PlainYears)

\* The requests that create accounts, Patients and Analyses, one at a time, and
\* the administration's changes of who is a moderator.
OwnershipNext ==
    \/ \E actor \in Actors : register(actor)
    \/ \E actor \in Actors : create_patient(actor)
    \/ \E actor \in Actors : PatientViewSet_create(actor)
    \/ \E actor \in Actors : AnalysisViewSet_create(actor)
    \/ \E actor \in Actors : create_analysis(actor)
    \/ \E u \in registered : add_group(u, "moderators")
    \/ \E u \in registered : remove_group(u, "moderators")

\* The empty database before the account u2 exists.
OwnershipInit ==
    /\ is_superuser = [u \in Users |-> FALSE]
    /\ groups = [InitialGroups EXCEPT !["u2"] = {}]
    /\ registered = Users \ {"u2"}
    /\ patients = <<>>
    /\ analyses = <<>>
    /\ analysis_types = OneActiveType
    /\ patientSeq = 0
    /\ analysisSeq = 0
    /\ outbox = [a \in AnalysisIds |-> 0]
    /\ now = 1
    /\ op = [name |-> "none", actor |-> Guest, pk |-> NULL, outcome |-> "none"]
    /\ handlers = <<>>

OwnershipSpec == OwnershipInit /\ [][OwnershipNext]_vars

\* Accounts made by the moderator only, through /patients/create/, and the
\* requests to create analyses that follow.
AccountNext ==
    \/ \E actor \in Actors : create_patient(actor)
    \/ \E actor \in Actors : AnalysisViewSet_create(actor)
    \/ \E actor \in Actors : create_analysis(actor)

AccountSpec == OwnershipInit /\ [][AccountNext]_vars

\* ------------------------------------------------------------------ interleaved handlers
\* Each request in flight holds what its handler has read so far; its steps are
\* its accesses to the database, in the order of the handler's code. No handler
\* runs in a transaction and no row is locked.
Idle ==
    [kind |-> "idle", pc |-> "idle", actor |-> Guest, pk |-> NULL,
     instance |-> NewAnalysis(NULL, "registered", Blank), sent |-> FALSE]

Running(h, kind, pc, actor, pk, instance) ==
    handlers' = [handlers EXCEPT ![h] =
        [kind |-> kind, pc |-> pc, actor |-> actor, pk |-> pk,
         instance |-> instance, sent |-> FALSE]]

Goto(h, pc) == handlers' = [handlers EXCEPT ![h].pc = pc]

Finish(h, outcome, pk) ==
    /\ Respond(handlers[h].kind, handlers[h].actor, pk, outcome)
    /\ handlers' = [handlers EXCEPT ![h] = Idle]

At(h, kind, pc) == handlers[h].kind = kind /\ handlers[h].pc = pc

\* set_status: the permission check, get_object and the validation of the status.
set_status_load(h, actor) ==
    /\ handlers[h].pc = "idle"
    /\ UNCHANGED <<accounts, store>>
    /\ IF ~IsModerator(actor)
       THEN Respond("set_status", actor, NULL, "forbidden") /\ UNCHANGED handlers
       ELSE \E pk \in AnalysisIds :
            IF pk \notin AnalysisViewSet_get_queryset(actor)
            THEN Respond("set_status", actor, pk, "not_found") /\ UNCHANGED handlers
            ELSE \E new_status \in Statuses \cup {NoStatus} :
                 IF new_status \notin STATUS_CHOICES
                 THEN Respond("set_status", actor, pk, "bad_request")
                      /\ UNCHANGED handlers
                 ELSE /\ Running(h, "set_status", "pre_save", actor, pk,
                                 [analyses[pk] EXCEPT !.status = new_status])
                      /\ UNCHANGED op

\* add_analysis_result: the checks of the view, get_object_or_404, the result
\* form and the assignments of the view on the instance it has loaded.
add_analysis_result_load(h, actor) ==
    /\ handlers[h].pc = "idle"
    /\ UNCHANGED <<accounts, store>>
    /\ IF ~is_authenticated(actor)
       THEN Respond("add_analysis_result", actor, NULL, "login") /\ UNCHANGED handlers
       ELSE IF ~is_moderator(actor)
       THEN Respond("add_analysis_result", actor, NULL, "forbidden")
            /\ UNCHANGED handlers
       ELSE \E pk \in AnalysisIds :
            IF pk \notin DOMAIN analyses
            THEN Respond("add_analysis_result", actor, pk, "not_found")
                 /\ UNCHANGED handlers
            ELSE \E payload \in Payloads \cup {Malformed} :
                 IF payload = Malformed
                 THEN Respond("add_analysis_result", actor, pk, "invalid")
                      /\ UNCHANGED handlers
                 ELSE /\ Running(h, "add_analysis_result", "pre_save", actor, pk,
                                 attach_result(analyses[pk], payload, actor))
                      /\ UNCHANGED op

\* analysis.save(), first half: Analysis.save stamps the date, the pre_save
\* receiver reads the stored row and sends the mail.
Analysis_pre_save(h) ==
    /\ handlers[h].pc = "pre_save"
    /\ UNCHANGED <<accounts, patients, analyses, patientSeq, analysis_types, analysisSeq>>
    /\ LET me == handlers[h]
           stamped == Analysis_save(me.instance, now)
           sig == handle_analysis_status_change(analyses, me.pk, stamped, now)
           held ==
               /\ sig.instance.completion_date # me.instance.completion_date
                      => now <= MaxTime
               /\ now' = IF sig.instance.completion_date # me.instance.completion_date
                         THEN now + 1 ELSE now
               /\ handlers' = [handlers EXCEPT ![h].pc = "write",
                                               ![h].instance = sig.instance,
                                               ![h].sent = sig.email]
               /\ UNCHANGED op
       IN  IF sig.email
           THEN \E mail_ok \in BOOLEAN :
                   IF mail_ok
                   THEN /\ outbox[me.pk] < MaxMail
                        /\ outbox' = send_completion_email(outbox, me.pk)
                        /\ held
                   ELSE /\ Finish(h, "error", me.pk)
                        /\ UNCHANGED <<outbox, now>>
           ELSE held /\ UNCHANGED outbox

\* analysis.save(), second half: every field of the instance is written.
Analysis_write(h) ==
    /\ handlers[h].pc = "write"
    /\ handlers[h].pk \in DOMAIN analyses
    /\ analyses' = [analyses EXCEPT ![handlers[h].pk] = handlers[h].instance]
    /\ Finish(h, "ok", handlers[h].pk)
    /\ UNCHANGED <<accounts, patients, patientSeq, analysis_types, analysisSeq, outbox, now>>

\* Patient.objects.get(created_by=user) of a provisioning path: found goes on to
\* pc have, DoesNotExist to pc create, MultipleObjectsReturned ends the request.
ProvisionGet(h, kind, pc, create, have) ==
    /\ At(h, kind, pc)
    /\ UNCHANGED <<accounts, store>>
    /\ LET own == OwnPatients(handlers[h].actor)
       IN  IF Cardinality(own) > 1 THEN Finish(h, "error", NULL)
           ELSE IF own = {} THEN Goto(h, create) /\ UNCHANGED op
           ELSE /\ handlers' = [handlers EXCEPT ![h].pc = have,
                                    ![h].instance.patient = CHOOSE q \in own : TRUE]
                /\ UNCHANGED op

\* Patient.objects.create(..., created_by=user) of a provisioning path.
ProvisionCreate(h, kind, pc, next) ==
    /\ At(h, kind, pc)
    /\ UNCHANGED <<accounts, analyses, analysis_types, analysisSeq, outbox, now>>
    /\ IF Patient_save_raises(ProvisionedPatient(handlers[h].actor))
       THEN Finish(h, "error", NULL) /\ UNCHANGED <<patients, patientSeq>>
       ELSE /\ InsertPatient(ProvisionedPatient(handlers[h].actor))
            /\ handlers' = [handlers EXCEPT ![h].pc = next,
                                            ![h].instance.patient = patientSeq + 1]
            /\ UNCHANGED op

\* /analyses/create/ : the checks at the head of the view.
create_analysis_begin(h, actor) ==
    /\ handlers[h].pc = "idle"
    /\ UNCHANGED <<accounts, store>>
    /\ IF ~is_authenticated(actor)
       THEN Respond("create_analysis", actor, NULL, "login") /\ UNCHANGED handlers
       ELSE IF ~(is_moderator(actor) \/ is_regular_user(actor))
       THEN Respond("create_analysis", actor, NULL, "forbidden") /\ UNCHANGED handlers
       ELSE /\ Running(h, "create_analysis",
                       IF is_regular_user(actor) THEN "view_get" ELSE "form_save",
                       actor, NULL, NewAnalysis(NULL, "registered", Blank))
            /\ UNCHANGED op

create_analysis_get(h) ==
    ProvisionGet(h, "create_analysis", "view_get", "view_create", "form_get")

create_analysis_create(h) ==
    ProvisionCreate(h, "create_analysis", "view_create", "form_get")

\* AnalysisForm(..., user=request.user), for a self-service account.
AnalysisForm_init_get(h) ==
    ProvisionGet(h, "create_analysis", "form_get", "form_create", "form_save")

AnalysisForm_init_create(h) ==
    ProvisionCreate(h, "create_analysis", "form_create", "form_save")

\* form.is_valid() and form.save() of a posted form; the page of a GET.
create_analysis_save(h) ==
    /\ At(h, "create_analysis", "form_save")
    /\ UNCHANGED <<accounts, patients, patientSeq, outbox>>
    /\ LET actor == handlers[h].actor
           choices == IF is_administrator(actor) \/ is_moderator(actor)
                      THEN DOMAIN patients ELSE OwnPatients(actor)
       IN  \E post \in BOOLEAN :
              IF post
              THEN \E p \in PatientIds, ty \in TypeNames :
                   IF p \in choices /\ ty \in AnalysisForm_analysis_type
                   THEN /\ InsertAnalysis(analyses, p, "registered", ty)
                        /\ Finish(h, "ok", analysisSeq + 1)
                   ELSE /\ Finish(h, "invalid", NULL)
                        /\ UNCHANGED <<analyses, analysis_types, analysisSeq, now>>
              ELSE /\ Finish(h, "form", NULL)
                   /\ UNCHANGED <<analyses, analysis_types, analysisSeq, now>>

\* POST /api/analyses/ : the permission check and the serializer's validation.
AnalysisViewSet_create_begin(h, actor) ==
    /\ handlers[h].pc = "idle"
    /\ UNCHANGED <<accounts, store>>
    /\ IF ~(IsModerator(actor) \/ IsRegularUser(actor))
       THEN Respond("AnalysisViewSet_create", actor, NULL, "forbidden")
            /\ UNCHANGED handlers
       ELSE \E p \in PatientIds, st \in Statuses, ty \in TypeNames :
            IF p \notin DOMAIN patients \/ st \notin STATUS_CHOICES
               \/ ty \notin AnalysisSerializer_analysis_type
            THEN Respond("AnalysisViewSet_create", actor, NULL, "bad_request")
                 /\ UNCHANGED handlers
            ELSE /\ Running(h, "AnalysisViewSet_create",
                            IF is_regular_user(actor) THEN "goc_get" ELSE "insert",
                            actor, NULL, NewAnalysis(p, st, ty))
                 /\ UNCHANGED op

\* perform_create: Patient.objects.get_or_create(created_by=user, defaults=...)
perform_create_get(h) ==
    ProvisionGet(h, "AnalysisViewSet_create", "goc_get", "goc_create", "insert")

perform_create_create(h) ==
    ProvisionCreate(h, "AnalysisViewSet_create", "goc_create", "insert")

\* serializer.save(...)
perform_create_save(h) ==
    /\ At(h, "AnalysisViewSet_create", "insert")
    /\ InsertAnalysis(analyses, handlers[h].instance.patient,
                      handlers[h].instance.status, handlers[h].instance.analysis_type)
    /\ Finish(h, "ok", analysisSeq + 1)
    /\ UNCHANGED <<accounts, patients, patientSeq, outbox>>

ProvisionNext ==
    \/ \E h \in Handlers, actor \in Actors : create_analysis_begin(h, actor)
    \/ \E h \in Handlers : create_analysis_get(h)
    \/ \E h \in Handlers : create_analysis_create(h)
    \/ \E h \in Handlers : AnalysisForm_init_get(h)
    \/ \E h \in Handlers : AnalysisForm_init_create(h)
    \/ \E h \in Handlers : create_analysis_save(h)
    \/ \E h \in Handlers, actor \in Actors : AnalysisViewSet_create_begin(h, actor)
    \/ \E h \in Handlers : perform_create_get(h)
    \/ \E h \in Handlers : perform_create_create(h)
    \/ \E h \in Handlers : perform_create_save(h)

CompletionNext ==
    \/ \E h \in Handlers, actor \in Actors : set_status_load(h, actor)
    \/ \E h \in Handlers : Analysis_pre_save(h)
    \/ \E h \in Handlers : Analysis_write(h)
    \/ \E actor \in Actors : AnalysisViewSet_create(actor)

\* No request in flight, on the empty database.
ProvisionInit ==
    /\ is_superuser = [u \in Users |-> FALSE]
    /\ groups = InitialGroups
    /\ registered = Users
    /\ patients = <<>>
    /\ analyses = <<>>
    /\ analysis_types = OneActiveType
    /\ patientSeq = 0
    /\ analysisSeq = 0
    /\ outbox = [a \in AnalysisIds |-> 0]
    /\ now = 1
    /\ op = [name |-> "none", actor |-> Guest, pk |-> NULL, outcome |-> "none"]
    /\ handlers = [h \in Handlers |-> Idle]

\* No request in flight; the Patient of the account u2 and one the moderator
\* has entered.
CompletionInit ==
    /\ is_superuser = [u \in Users |-> FALSE]
    /\ groups = InitialGroups
    /\ registered = Users
    /\ patients = (1 :> ProvisionedPatient("u2")) @@ (2 :> NewPatient("mod"))
    /\ analyses = <<>>
    /\ analysis_types = OneActiveType
    /\ patientSeq = 2
    /\ analysisSeq = 0
    /\ outbox = [a \in AnalysisIds |-> 0]
    /\ now = 1
    /\ op = [name |-> "create_analysis", actor |-> "u2", pk |-> NULL, outcome |-> "form"]
    /\ handlers = [h \in Handlers |-> Idle]

ProvisionSpec == ProvisionInit /\ [][ProvisionNext]_vars

\* set_status and add_analysis_result requests in flight together on the one
\* Analysis of the database.
ResultNext ==
    \/ \E h \in Handlers, actor \in Actors : set_status_load(h, actor)
    \/ \E h \in Handlers, actor \in Actors : add_analysis_result_load(h, actor)
    \/ \E h \in Handlers : Analysis_pre_save(h)
    \/ \E h \in Handlers : Analysis_write(h)

ResultInit ==
    /\ is_superuser = [u \in Users |-> FALSE]
    /\ groups = InitialGroups
    /\ registered = Users
    /\ patients = (1 :> ProvisionedPatient("u2")) @@ (2 :> NewPatient("mod"))
    /\ analyses = (1 :> NewAnalysis(1, "registered", "blood"))
    /\ analysis_types = OneActiveType
    /\ patientSeq = 2
    /\ analysisSeq = 1
    /\ outbox = [a \in AnalysisIds |-> 0]
    /\ now = 1
    /\ op = [name |-> "create_analysis", actor |-> "u2", pk |-> 1, outcome |-> "ok"]
    /\ handlers = [h \in Handlers |-> Idle]

ResultSpec == ResultInit /\ [][ResultNext]_vars

CompletionSpec == CompletionInit /\ [][CompletionNext]_vars

\* ------------------------------------------------------------------ birth dates
\* PATCH /api/patients/{pk}/ {birth_date}: get_object looks pk up in
\* get_queryset, then the object permission; the serializer parses the date.
PatientViewSet_partial_update(actor) ==
    /\ UNCHANGED <<accounts, handlers>>
    /\ \E pk \in PatientIds :
       IF pk \notin PatientViewSet_get_queryset(actor)
       THEN Respond("PatientViewSet_partial_update", actor, pk, "not_found")
            /\ UNCHANGED store
       ELSE IF ~(is_administrator(actor) \/ is_moderator(actor)
                 \/ patients[pk].created_by = actor)
       THEN Respond("PatientViewSet_partial_update", actor, pk, "forbidden")
            /\ UNCHANGED store
       ELSE \E year \in BirthYears :
            IF Patient_save_raises(PatientBorn(patients[pk], year))
            THEN Respond("PatientViewSet_partial_update", actor, pk, "error")
                 /\ UNCHANGED store
            ELSE /\ patients' = [patients EXCEPT ![pk] = PatientBorn(@, year)]
                 /\ Respond("PatientViewSet_partial_update", actor, pk, "ok")
                 /\ UNCHANGED <<analyses, analysis_types, patientSeq, analysisSeq,
                                outbox, now>>

\* GET or POST /patients/{pk}/edit/ : PatientForm with the birth year of the
\* posted form.
edit_patient(actor) ==
    /\ UNCHANGED <<accounts, handlers>>
    /\ IF ~is_authenticated(actor)
       THEN Respond("edit_patient", actor, NULL, "login") /\ UNCHANGED store
       ELSE \E pk \in PatientIds :
            IF pk \notin DOMAIN patients
            THEN Respond("edit_patient", actor, pk, "not_found") /\ UNCHANGED store
            ELSE IF ~(is_administrator(actor) \/ is_moderator(actor)
                      \/ (is_regular_user(actor) /\ patients[pk].created_by = actor))
            THEN Respond("edit_patient", actor, pk, "forbidden") /\ UNCHANGED store
            ELSE \E post \in BOOLEAN :
                 IF ~post
                 THEN Respond("edit_patient", actor, pk, "form") /\ UNCHANGED store
                 ELSE \E year \in BirthYears :
                      IF ~PatientForm_clean_birth_date(year)
                      THEN Respond("edit_patient", actor, pk, "invalid")
                           /\ UNCHANGED store
                      ELSE /\ patients' = [patients EXCEPT ![pk] = PatientBorn(@, year)]
                           /\ Respond("edit_patient", actor, pk, "ok")
                           /\ UNCHANGED <<analyses, analysis_types, patientSeq,
                                          analysisSeq, outbox, now>>

\* Creating and updating Patients with every birth year, from a database that
\* holds one Patient entered by the moderator; the account u2 does not exist yet.
BirthNext ==
    \/ \E actor \in Actors : PatientViewSet_create_with(actor, BirthYears)
    \/ \E actor \in Actors : create_patient_with(actor, BirthYears)
    \/ \E actor \in Actors : PatientViewSet_partial_update(actor)
    \/ \E actor \in Actors : edit_patient(actor)

BirthInit ==
    /\ is_superuser = [u \in Users |-> FALSE]
    /\ groups = [InitialGroups EXCEPT !["u2"] = {}]
    /\ registered = Users \ {"u2"}
    /\ patients = (1 :> NewPatient("mod"))
    /\ analyses = <<>>
    /\ analysis_types = OneActiveType
    /\ patientSeq = 1
    /\ analysisSeq = 0
    /\ outbox = [a \in AnalysisIds |-> 0]
    /\ now = 1
    /\ op = [name |-> "PatientViewSet_create", actor |-> "mod", pk |-> 1, outcome |-> "ok"]
    /\ handlers = <<>>

BirthSpec == BirthInit /\ [][BirthNext]_vars

\* ------------------------------------------------------------------ analysis types
\* Creating analyses while one of the two AnalysisType rows is inactive. No view
\* of the application writes an AnalysisType row.
TypeNext ==
    \/ \E actor \in Actors : AnalysisViewSet_create(actor)
    \/ \E actor \in Actors : create_analysis(actor)
    \/ \E actor \in Actors : AnalysisViewSet_destroy(actor)

TypeInit ==
    /\ is_superuser = [u \in Users |-> FALSE]
    /\ groups = InitialGroups
    /\ registered = Users
    /\ patients = (1 :> ProvisionedPatient("u2")) @@ (2 :> NewPatient("mod"))
    /\ analyses = <<>>
    /\ analysis_types = ActiveAndInactiveType
    /\ patientSeq = 2
    /\ analysisSeq = 0
    /\ outbox = [a \in AnalysisIds |-> 0]
    /\ now = 1
    /\ op = [name |-> "create_analysis", actor |-> "u2", pk |-> NULL, outcome |-> "form"]
    /\ handlers = <<>>

TypeSpec == TypeInit /\ [][TypeNext]_vars

\* ------------------------------------------------------------------ properties
LifecycleOps == {"set_status", "add_analysis_result"}
DestroyOps == {"PatientViewSet_destroy", "AnalysisViewSet_destroy"}
Terminal == {"completed", "cancelled"}

\* C2: no set_status or add_analysis_result request changes or clears a
\* completion date that is set, and none sets the date of an Analysis except by
\* moving it into completed.
C2_CompletionDateSetOnce ==
    [][\A a \in DOMAIN analyses :
          (op'.name \in LifecycleOps /\ a \in DOMAIN analyses') =>
             /\ analyses[a].completion_date # NULL =>
                    analyses'[a].completion_date = analyses[a].completion_date
             /\ (analyses[a].completion_date = NULL
                     /\ analyses'[a].completion_date # NULL) =>
                    (analyses[a].status # "completed"
                         /\ analyses'[a].status = "completed")]_vars

\* An Analysis completed a second time, after it had left completed, by a result
\* attached to it: its date is the one of its first completion.
C2_Witness ==
    /\ op.name = "add_analysis_result" /\ op.outcome = "ok"
    /\ outbox[op.pk] = 2
    /\ analyses[op.pk].status = "completed"
    /\ analyses[op.pk].completion_date # NULL
    /\ analyses[op.pk].completion_date < now

\* C3: at most one completion mail is sent for an Analysis.
C3_AtMostOneNotification == \A a \in AnalysisIds : outbox[a] <= 1

\* C6: an Analysis that is completed or cancelled keeps its status.
C6_TerminalIsFinal ==
    [][\A a \in DOMAIN analyses :
          (op'.name \in LifecycleOps /\ a \in DOMAIN analyses'
               /\ analyses[a].status \in Terminal) =>
             analyses'[a].status = analyses[a].status]_vars

\* C7: a request whose completion mail could not be dispatched has still moved
\* the Analysis to completed and set its date.
C7_DispatchFailureKeepsTransition ==
    (op.name \in LifecycleOps /\ op.outcome = "error") =>
        /\ analyses[op.pk].status = "completed"
        /\ analyses[op.pk].completion_date # NULL

C9_DeleteOnlyByAdministrator ==
    [][/\ (op'.name \in DestroyOps
              /\ ~(op'.actor \in Users /\ is_administrator(op'.actor))) =>
             (op'.outcome = "forbidden"
                  /\ patients' = patients /\ analyses' = analyses)
       /\ (DOMAIN patients \ DOMAIN patients' # {}
              \/ DOMAIN analyses \ DOMAIN analyses' # {}) =>
             (op'.name \in DestroyOps /\ op'.outcome = "ok"
                  /\ op'.actor \in Users /\ is_administrator(op'.actor))]_vars

\* The owner of a Patient has asked to delete a Patient and was refused.
C9_Witness ==
    /\ op.name = "PatientViewSet_destroy" /\ op.outcome = "forbidden"
    /\ op.actor \in Users /\ is_regular_user(op.actor)
    /\ \E p \in DOMAIN patients : patients[p].created_by = op.actor

\* C8: every account has the one role its flags give it by the precedence
\* Administrator, Moderator, Patient, and the role shown by the API agrees.
C8_RoleResolution ==
    \A u \in Users :
        LET admin == is_superuser[u] \/ "administrators" \in groups[u]
            moder == "moderators" \in groups[u]
        IN  /\ role_display(u) =
                  (IF admin THEN "Administrator"
                   ELSE IF moder THEN "Moderator" ELSE "Patient")
            /\ get_role_display(u) = role_display(u)
            /\ is_administrator(u) <=> (role_display(u) = "Administrator")
            /\ is_regular_user(u) <=> (role_display(u) = "Patient")
            /\ (role_display(u) = "Moderator") => is_moderator(u)

\* A superuser outside the group administrators who is in the group moderators.
C8_Witness ==
    \E u \in Users :
        /\ is_superuser[u] /\ "administrators" \notin groups[u]
        /\ "moderators" \in groups[u]
        /\ role_display(u) = "Administrator"

AllIdle == \A h \in Handlers : handlers[h].pc = "idle"

\* C1: a self-service account never has two Patients, and has one once a
\* provisioning request of its own has ended.
C1_ProvisioningYieldsOnePatient ==
    /\ \A u \in Users : is_regular_user(u) => Cardinality(OwnPatients(u)) <= 1
    /\ (AllIdle /\ op.name \in {"create_analysis", "AnalysisViewSet_create"}
            /\ op.outcome \in {"ok", "form", "invalid"}
            /\ op.actor \in Users /\ is_regular_user(op.actor))
           => Cardinality(OwnPatients(op.actor)) = 1

\* C4: two set_status requests in flight on one Analysis have not both seen it
\* not completed and both sent the completion mail.
C4_ConcurrentCompletionNotifiesOnce ==
    \A h1, h2 \in Handlers :
        (h1 # h2 /\ handlers[h1].kind = "set_status" /\ handlers[h2].kind = "set_status"
             /\ handlers[h1].pk = handlers[h2].pk)
            => ~(handlers[h1].sent /\ handlers[h2].sent)

CreateOps == {"PatientViewSet_create", "create_patient", "AnalysisViewSet_create",
              "create_analysis"}

\* C11: no request of an administrator to create a Patient or an Analysis is
\* refused, and every request of a guest or of a self-service account to create
\* a Patient is. The roles are those the actor has when the request is served.
C11_AdministratorsCreate ==
    [][(op' # op /\ op'.name \in CreateOps) =>
          /\ (op'.actor \in registered /\ is_administrator(op'.actor))
                 => op'.outcome # "forbidden"
          /\ (op'.name \in {"PatientViewSet_create", "create_patient"}
                  /\ (op'.actor \notin registered \/ is_regular_user(op'.actor)))
                 => op'.outcome \in {"forbidden", "login"}]_vars

LifecycleFields(a) ==
    <<a.status, a.result, a.completion_date, a.lab_technician>>

\* C12: the request of a self-service account leaves the status, the result, the
\* completion date and the lab technician of every stored Analysis as they were.
C12_OwnerCannotChangeLifecycle ==
    [][(op' # op /\ op'.actor \in registered /\ is_regular_user(op'.actor)) =>
          \A a \in DOMAIN analyses :
             a \in DOMAIN analyses' =>
                LifecycleFields(analyses'[a]) = LifecycleFields(analyses[a])]_vars

\* C13: a set_status request answered with an error leaves every Analysis and
\* the mails sent as they were, and any other set_status request leaves each
\* Analysis in one of the four statuses.
C13_InvalidStatusRejected ==
    [][(op' # op /\ op'.name = "set_status") =>
          /\ op'.outcome = "bad_request" => UNCHANGED <<analyses, outbox, now>>
          /\ \A a \in DOMAIN analyses' :
                analyses'[a].status \in
                    {"registered", "in_progress", "completed", "cancelled"}]_vars

\* A moderator's set_status on a stored Analysis was refused as a bad request.
C13_Witness ==
    /\ op.name = "set_status" /\ op.outcome = "bad_request"
    /\ op.pk \in DOMAIN analyses
    /\ is_moderator(op.actor)

\* C14: a set_status request that asks for completed on an Analysis that is not
\* completed (it stores completed, or fails in the dispatch) is answered ok and
\* leaves the Analysis completed and dated, with one more mail sent for it.
C14_CompletionNotifiesOnce ==
    [][\A a \in DOMAIN analyses :
          (op' # op /\ op'.name = "set_status" /\ op'.pk = a
               /\ analyses[a].status # "completed"
               /\ (op'.outcome = "error" \/ analyses'[a].status = "completed")) =>
             /\ op'.outcome = "ok"
             /\ analyses'[a].status = "completed"
             /\ analyses'[a].completion_date # NULL
             /\ outbox'[a] = outbox[a] + 1]_vars

\* C15: a set_status request that asks for completed on a completed Analysis
\* leaves the Analysis, the mails sent and the clock as they were.
C15_RecompletionIsNoOp ==
    [][\A a \in DOMAIN analyses :
          (op'.name = "set_status" /\ op'.pk = a /\ op'.outcome = "ok"
               /\ analyses[a].status = "completed"
               /\ analyses'[a].status = "completed") =>
             /\ analyses'[a] = analyses[a]
             /\ outbox' = outbox
             /\ now' = now]_vars

\* set_status has answered ok on an Analysis that a result had completed before.
C15_Witness ==
    /\ op.name = "set_status" /\ op.outcome = "ok"
    /\ op.pk \in DOMAIN analyses
    /\ analyses[op.pk].status = "completed"
    /\ analyses[op.pk].lab_technician # NoUser
    /\ outbox[op.pk] = 1

\* C16: add_analysis_result answers ok only to a moderator; the Analysis it
\* names is then completed, dated, holds a result of the form and has the actor
\* as lab technician, and no other Analysis has changed; answered otherwise, it
\* has changed no Analysis.
C16_AttachResultIsOneUpdate ==
    [][op'.name = "add_analysis_result" =>
          IF op'.outcome = "ok"
          THEN /\ is_moderator(op'.actor)
               /\ op'.pk \in DOMAIN analyses
               /\ analyses'[op'.pk].status = "completed"
               /\ analyses'[op'.pk].completion_date # NULL
               /\ analyses'[op'.pk].result \in Payloads
               /\ analyses'[op'.pk].lab_technician = op'.actor
               /\ analyses'[op'.pk].patient = analyses[op'.pk].patient
               /\ \A a \in DOMAIN analyses \ {op'.pk} : analyses'[a] = analyses[a]
          ELSE analyses' = analyses /\ outbox' = outbox]_vars

\* A moderator's result is stored on an Analysis dated at the last stamping.
C16_Witness ==
    /\ op.name = "add_analysis_result" /\ op.outcome = "ok"
    /\ analyses[op.pk].status = "completed"
    /\ analyses[op.pk].result \in Payloads
    /\ analyses[op.pk].lab_technician = op.actor
    /\ analyses[op.pk].completion_date = now - 1

PatientReads == {"PatientViewSet_retrieve", "PatientViewSet_analyses", "patient_detail"}
AnalysisReads == {"AnalysisViewSet_retrieve", "analysis_detail"}

\* C17: a self-service account that asked for one Patient or Analysis was
\* answered forbidden if the record exists and is not its own, and not found if
\* no record has the id.
C17_ForbiddenIsNotNotFound ==
    (op.actor \in registered /\ is_regular_user(op.actor) /\ op.pk # NULL) =>
        /\ op.name \in PatientReads =>
              IF op.pk \notin DOMAIN patients THEN op.outcome = "not_found"
              ELSE patients[op.pk].created_by # op.actor => op.outcome = "forbidden"
        /\ op.name \in AnalysisReads =>
              IF op.pk \notin DOMAIN analyses THEN op.outcome = "not_found"
              ELSE patients[analyses[op.pk].patient].created_by # op.actor
                       => op.outcome = "forbidden"

\* C18: with one request served at a time, every account whose role is Patient
\* is the created_by of at most one Patient.
C18_OnePatientPerSelfServiceAccount ==
    \A u \in registered :
        is_regular_user(u) => Cardinality(OwnPatients(u)) <= 1

ProvisioningOps == {"create_analysis", "AnalysisViewSet_create"}

\* C19: a request that provisions, made by a self-service account that has a
\* Patient, leaves the table of Patients as it was, and the Analysis it creates
\* belongs to that Patient.
C19_ProvisioningIsIdempotent ==
    [][(op'.name \in ProvisioningOps /\ op'.actor \in registered
            /\ is_regular_user(op'.actor)
            /\ \E p \in DOMAIN patients : patients[p].created_by = op'.actor) =>
          /\ patients' = patients
          /\ patientSeq' = patientSeq
          /\ op'.outcome = "ok" =>
                /\ op'.pk \in DOMAIN analyses' \ DOMAIN analyses
                /\ patients[analyses'[op'.pk].patient].created_by = op'.actor]_vars

\* An Analysis was created through the API by a self-service account whose
\* Patient is older than the last Patient entered.
C19_Witness ==
    /\ op.name = "AnalysisViewSet_create" /\ op.outcome = "ok"
    /\ op.actor \in registered /\ is_regular_user(op.actor)
    /\ op.pk \in DOMAIN analyses
    /\ analyses[op.pk].patient \in DOMAIN patients
    /\ patients[analyses[op.pk].patient].created_by = op.actor
    /\ analyses[op.pk].patient < patientSeq
    /\ Cardinality({p \in DOMAIN patients : patients[p].created_by = op.actor}) = 1

\* The Patient of the sentinel defaults, for the account u.
SentinelPatient(u) ==
    [created_by |-> u, last_name |-> "User", first_name |-> "Unknown",
     birth_date |-> DateOf(2000), gender |-> "O"]

MissingProfile(u) ==
    /\ UserProfile[u].last_name = Blank /\ UserProfile[u].first_name = Blank
    /\ UserProfile[u].birth_date = NoDate

\* C20: a request to create an Analysis that gets as far as provisioning, made
\* by a self-service account with no Patient and no names or birth date in its
\* profile, is answered ok: a Patient of the sentinel defaults is stored for
\* the account, and the new Analysis is registered and belongs to it.
C20_ProvisioningWithDefaults ==
    [][(op' # op /\ op'.name \in ProvisioningOps /\ op'.actor \in registered
            /\ is_regular_user(op'.actor) /\ MissingProfile(op'.actor)
            /\ OwnPatients(op'.actor) = {}
            /\ op'.outcome \in {"ok", "error"}) =>
          /\ op'.outcome = "ok"
          /\ \E p \in DOMAIN patients' \ DOMAIN patients :
                /\ patients'[p] = SentinelPatient(op'.actor)
                /\ op'.pk \in DOMAIN analyses'
                /\ analyses'[op'.pk].patient = p
                /\ analyses'[op'.pk].status = "registered"]_vars

\* C21: the Analysis that a create request of a self-service account has stored
\* belongs to a Patient whose created_by is that account.
C21_CreatedForOwnPatient ==
    [][(op'.name \in ProvisioningOps /\ op'.outcome = "ok"
            /\ op'.actor \in registered /\ is_regular_user(op'.actor)) =>
          /\ op'.pk \in DOMAIN analyses' \ DOMAIN analyses
          /\ analyses'[op'.pk].patient \in DOMAIN patients'
          /\ patients'[analyses'[op'.pk].patient].created_by = op'.actor]_vars

\* A self-service account has created an Analysis through the API while a
\* Patient of another account was there to be named.
C21_Witness ==
    /\ op.name = "AnalysisViewSet_create" /\ op.outcome = "ok"
    /\ op.actor \in registered /\ is_regular_user(op.actor)
    /\ op.pk \in DOMAIN analyses
    /\ analyses[op.pk].patient \in DOMAIN patients
    /\ patients[analyses[op.pk].patient].created_by = op.actor
    /\ \E q \in DOMAIN patients :
          patients[q].created_by # op.actor /\ q < analyses[op.pk].patient

\* C22: no create-analysis operation, through the API or the HTML form and for
\* any role, stores an Analysis whose AnalysisType is inactive at the moment of
\* creation, and the rows of inactive types stay in the table. (The HTML form
\* keeps this; POST /api/analyses/ does not: its analysis_type field accepts
\* every row.)
C22_CreatedWithActiveType ==
    [][/\ analysis_types' = analysis_types
       /\ \A a \in DOMAIN analyses' \ DOMAIN analyses :
             analysis_types[analyses'[a].analysis_type]]_vars

\* C22 restricted to /analyses/create/, where the form's queryset holds.
C22_FormCreatedWithActiveType ==
    [][op'.name = "create_analysis" =>
         \A a \in DOMAIN analyses' \ DOMAIN analyses :
            analysis_types[analyses'[a].analysis_type]]_vars

C22_FormWitness ==
    /\ op.name = "create_analysis" /\ op.outcome = "ok"
    /\ op.pk \in DOMAIN analyses
    /\ \E ty \in DOMAIN analysis_types : ~analysis_types[ty]

\* C23: no create or update path (HTML forms, API serializer, model save) stores
\* a Patient whose birth date is after today or implies an age above 150 years.
\* (PatientForm keeps this; the API serializer and PatientWithUserForm check
\* nothing, and Patient.save only refuses a date after today.)
C23_BirthDatePlausible ==
    \A p \in DOMAIN patients :
       /\ patients[p].birth_date.type = "date"
       /\ PatientForm_clean_birth_date(patients[p].birth_date.year)

\* C23, its second half: an implausible birth date is answered as a validation
\* error, never as a server error. (Patient.save raises ValueError in the API.)
C23_RejectedAsValidationError ==
    [][op' # op /\ op'.name \in {"PatientViewSet_create", "PatientViewSet_partial_update",
                                 "create_patient", "edit_patient"}
         => op'.outcome # "error"]_vars

\* C23 restricted to /patients/{pk}/edit/, where PatientForm validates.
C23_FormBirthDatePlausible ==
    [][op'.name = "edit_patient" =>
         \A p \in DOMAIN patients' :
            patients'[p] # patients[p] =>
               PatientForm_clean_birth_date(patients'[p].birth_date.year)]_vars

\* C24: an Analysis is registered right after its creation, by whichever create
\* operation and whatever status the request carries. (The HTML form has no
\* status field; POST /api/analyses/ stores the status of the payload.)
C24_CreatedRegistered ==
    [][\A a \in DOMAIN analyses' \ DOMAIN analyses :
          analyses'[a].status = "registered"]_vars

\* C24 restricted to /analyses/create/ and to payloads that carry no status.
C24_FormCreatedRegistered ==
    [][op'.name = "create_analysis" =>
         \A a \in DOMAIN analyses' \ DOMAIN analyses :
            analyses'[a].status = "registered"]_vars

\* C25: the list of users given to a Moderator holds no account whose role is
\* Administrator (superuser, or member of administrators), whatever groups the
\* accounts are in. (The list is filtered by membership of moderators or users,
\* which an Administrator may have as well.)
C25_ModeratorSeesNoAdministrator ==
    \A u \in Users :
       role_display(u) = "Moderator" =>
          \A v \in UserViewSet_get_queryset(u) : ~is_administrator(v)

\* C25, its second half: Administrators are given every account, accounts that
\* are neither Administrator nor Moderator none.
C25_AdministratorsSeeAll ==
    \A u \in Users :
       /\ is_administrator(u) => UserViewSet_get_queryset(u) = registered
       /\ is_regular_user(u) => UserViewSet_get_queryset(u) = {}

\* C26: every stored Analysis that is completed has a completion date, whichever
\* request wrote it: creation as completed, set_status, add_analysis_result or a
\* generic update.
C26_CompletedIsDated ==
    \A a \in DOMAIN analyses :
       analyses[a].status = "completed" => analyses[a].completion_date # NULL

\* An Analysis created as completed (no mail was ever sent for it), then written
\* by a generic update, and still completed.
C26_Witness ==
    /\ op.name = "AnalysisViewSet_partial_update" /\ op.outcome = "ok"
    /\ op.pk \in DOMAIN analyses
    /\ analyses[op.pk].status = "completed"
    /\ analyses[op.pk].completion_date # NULL
    /\ outbox[op.pk] = 0

\* C27: with set_status and add_analysis_result in flight on one Analysis, the
\* write of set_status leaves the stored result and lab technician, which only a
\* committed add_analysis_result has written, as they are. (set_status writes
\* every field of the instance it loaded, also the result and the technician it
\* read before add_analysis_result committed.)
C27_SetStatusKeepsResult ==
    [][\A h \in Handlers :
          (handlers[h].kind = "set_status" /\ handlers[h].pc = "write"
               /\ handlers'[h].pc = "idle" /\ handlers[h].pk \in DOMAIN analyses) =>
             /\ analyses'[handlers[h].pk].result = analyses[handlers[h].pk].result
             /\ analyses'[handlers[h].pk].lab_technician
                    = analyses[handlers[h].pk].lab_technician]_vars

\* C27 for the requests served one after the other.
C27_SequentialSetStatusKeepsResult ==
    [][\A a \in DOMAIN analyses :
          (op'.name = "set_status" /\ a \in DOMAIN analyses') =>
             /\ analyses'[a].result = analyses[a].result
             /\ analyses'[a].lab_technician = analyses[a].lab_technician]_vars

\* C28: every save of a stored Analysis that moves its status from one that is
\* not completed to completed (set_status, add_analysis_result, a generic update
\* of the API) sends one completion mail for it, and an Analysis created as
\* completed gets its date and no mail.
C28_NotificationOnStoredTransition ==
    [][/\ \A a \in DOMAIN analyses \cap DOMAIN analyses' :
             (analyses[a].status # "completed" /\ analyses'[a].status = "completed")
                => outbox'[a] = outbox[a] + 1
       /\ \A a \in DOMAIN analyses' \ DOMAIN analyses :
             analyses'[a].status = "completed"
                => /\ analyses'[a].completion_date # NULL
                   /\ outbox'[a] = outbox[a]]_vars

\* A generic update has stored completed on an Analysis that no result was ever
\* attached to, and one mail has been sent for it.
C28_Witness ==
    /\ op.name = "AnalysisViewSet_partial_update" /\ op.outcome = "ok"
    /\ op.pk \in DOMAIN analyses
    /\ analyses[op.pk].status = "completed"
    /\ analyses[op.pk].lab_technician = NoUser
    /\ analyses[op.pk].completion_date = now - 1
    /\ outbox[op.pk] = 1

\* C29: a Patient that a moderator enters with an account, through
\* /patients/create/, has the moderator as created_by, not the new account; the
\* new account then owns no Patient and is listed none and no Analysis, and its
\* first request to create an Analysis provisions one more Patient, its own,
\* leaving the moderator's as it is.
C29_AccountPatientBelongsToModerator ==
    [][/\ (op' # op /\ op'.name = "create_patient" /\ op'.outcome = "ok") =>
             \E email \in registered' \ registered :
                /\ is_moderator(op'.actor) /\ op'.actor # email
                /\ patients'[op'.pk].created_by = op'.actor
                /\ (OwnPatients(email))' = {}
                /\ (PatientViewSet_list(email).data)' = {}
                /\ (patients_list(email).data)' = {}
                /\ (AnalysisViewSet_list(email).data)' = {}
                /\ (analyses_list(email).data)' = {}
       /\ \A u \in registered :
             (op' # op /\ op'.actor = u
                  /\ op'.name \in {"create_analysis", "AnalysisViewSet_create"}
                  /\ op'.outcome \in {"ok", "form", "invalid"}
                  /\ is_regular_user(u) /\ OwnPatients(u) = {}) =>
                /\ DOMAIN patients' = DOMAIN patients \cup {patientSeq + 1}
                /\ patients'[patientSeq + 1].created_by = u
                /\ \A p \in DOMAIN patients : patients'[p] = patients[p]
                /\ op'.outcome = "ok" => analyses'[op'.pk].patient = patientSeq + 1]_vars

\* The account u2, made by the moderator together with Patient 1, has created an
\* Analysis: it is of Patient 2, provisioned for u2, and Patient 1 is the
\* moderator's.
C29_Witness ==
    /\ op.name \in {"create_analysis", "AnalysisViewSet_create"}
    /\ op.actor = "u2" /\ op.outcome = "ok"
    /\ DOMAIN patients = {1, 2}
    /\ patients[1].created_by = "mod"
    /\ patients[2].created_by = "u2"
    /\ op.pk \in DOMAIN analyses /\ analyses[op.pk].patient = 2

\* C30: every Analysis that a request of a self-service account has created or
\* changed is of a Patient whose created_by is that account: an update by the
\* owner does not link the Analysis to the Patient of another account. (The form
\* of edit_analysis offers the account's own Patients only; the patient field of
\* the API serializer accepts every Patient.)
C30_WrittenForOwnPatient ==
    [][(op'.actor \in registered /\ is_regular_user(op'.actor)) =>
          \A a \in DOMAIN analyses' :
             (a \notin DOMAIN analyses \/ analyses'[a] # analyses[a]) =>
                patients'[analyses'[a].patient].created_by = op'.actor]_vars

\* C30 restricted to the page /analyses/{pk}/edit/.
C30_FormWrittenForOwnPatient ==
    [][(op'.name = "edit_analysis" /\ op'.actor \in registered
            /\ is_regular_user(op'.actor)) =>
          \A a \in DOMAIN analyses' :
             (a \notin DOMAIN analyses \/ analyses'[a] # analyses[a]) =>
                patients'[analyses'[a].patient].created_by = op'.actor]_vars

====
